---- MODULE Spec2Model ----
(***************************************************************************)
(* Model of the AppsAI MCP server: the identity cache and request handlers *)
(* of index.ts, and the tool registry (convertToMCPTool, getAllTools,      *)
(* executeToolCall) in its two builds: src/src/tools.ts (local project     *)
(* tools, direct project dispatch, opaque 402 message) and the registry of *)
(* src/unnamed/part_000 (all tools from the backend, structured x402       *)
(* payment info).                                                          *)
(*                                                                         *)
(* A JavaScript string is a sequence of tokens: "_" is the underscore      *)
(* character, every other token is an underscore-free word.  A JavaScript  *)
(* object is a sequence of [key, val] entries in insertion order.  Amounts *)
(* are counted in halves (50 stands for 25.0).                             *)
(***************************************************************************)
EXTENDS Integers, Sequences, FiniteSets, TLC

\* ---------------------------------------------------------------- bounds
MaxNameLen == 4
MaxProps == 2
MaxRequired == 2
MaxInFlight == 2
MaxRequests == 3
MaxActions == 2

\* ---------------------------------------------------------------- builds
Builds == {"tools_ts", "part_000"}

\* ---------------------------------------------------------------- strings
Str(w) == <<w>>

Join(a, b) == a \o <<"_">> \o b

RECURSIVE SeqsUpTo(_, _)
SeqsUpTo(S, n) ==
  IF n = 0 THEN {<<>>}
  ELSE LET shorter == SeqsUpTo(S, n - 1)
       IN  shorter \cup {Append(s, x) : s \in {t \in shorter : Len(t) = n - 1}, x \in S}

Includes(arr, x) == \E i \in DOMAIN arr : arr[i] = x

\* ---------------------------------------------------------------- objects
HasKey(o, k) == \E i \in DOMAIN o : o[i].key = k

KeyIndex(o, k) == CHOOSE i \in DOMAIN o : o[i].key = k

KeysOf(o) == [i \in DOMAIN o |-> o[i].key]

\* an assignment that leaves a key alone when the object has it already
ObjAssignKeepsExisting(o, e) ==
  IF HasKey(o, e.key) THEN o ELSE Append(o, e)

\* o[k] = v: an existing key keeps its position, a new key goes last
ObjAssign(o, e) ==
  IF HasKey(o, e.key) THEN [o EXCEPT ![KeyIndex(o, e.key)] = e] ELSE Append(o, e)

\* { ...base, ...o }
RECURSIVE ObjSpread(_, _)
ObjSpread(base, o) ==
  IF o = <<>> THEN base ELSE ObjSpread(ObjAssign(base, Head(o)), Tail(o))

\* ---------------------------------------------------------------- catalog translation
CATEGORIES_REQUIRING_PROJECT_ID(b) ==
  IF b = "tools_ts"
  THEN {Str("canvas"), Str("server"), Str("system"), Str("aws"), Str("mongodb"), Str("agents")}
  ELSE {Str("canvas"), Str("backend"), Str("system"), Str("mongodb"), Str("agents"),
        Str("marketplace"), Str("domain"), Str("team"), Str("settings"), Str("cost")}

\* the property schema injected for projectId
ProjectIdProperty(b) ==
  [type |-> "string",
   description |-> IF b = "tools_ts"
                   THEN "The project ID to execute this tool on. Required. Use project_LIST_PROJECTS to see available projects."
                   ELSE "The project ID to execute this tool on. Required. Use project_LIST_APPS to see available apps."]

\* the parameters passed on as they are
KeepAdditionalProperties(params) == params

\* const { additionalProperties, ...cleanParams } = tool.parameters
StripAdditionalProperties(params) ==
  [k \in (DOMAIN params) \ {"additionalProperties"} |-> params[k]]

\* projectId added after the declared properties
InjectPropertyLast(b, category, properties) ==
  IF category \in CATEGORIES_REQUIRING_PROJECT_ID(b) /\ ~HasKey(properties, "projectId")
  THEN Append(properties, [key |-> "projectId", val |-> ProjectIdProperty(b)])
  ELSE properties

\* projectId injected without looking for a declared one
InjectPropertyAlways(b, category, properties) ==
  IF category \in CATEGORIES_REQUIRING_PROJECT_ID(b)
  THEN ObjSpread(<<[key |-> "projectId", val |-> ProjectIdProperty(b)]>>, properties)
  ELSE properties

InjectProperty(b, category, properties) ==
  IF category \in CATEGORIES_REQUIRING_PROJECT_ID(b) /\ ~HasKey(properties, "projectId")
  THEN ObjSpread(<<[key |-> "projectId", val |-> ProjectIdProperty(b)]>>, properties)
  ELSE properties

\* "projectId" required in every category
InjectRequiredEverywhere(b, category, required) ==
  IF ~Includes(required, "projectId") THEN <<"projectId">> \o required ELSE required

InjectRequired(b, category, required) ==
  IF category \in CATEGORIES_REQUIRING_PROJECT_ID(b) /\ ~Includes(required, "projectId")
  THEN <<"projectId">> \o required
  ELSE required

TranslateSchema(b, category, params) ==
  LET cleanParams == StripAdditionalProperties(params)
  IN  [cleanParams EXCEPT !["properties"] = InjectProperty(b, category, cleanParams["properties"]),
                          !["required"] = InjectRequired(b, category, cleanParams["required"])]

convertToMCPTool(b, tool, category) ==
  [name |-> Join(category, tool.name),
   description |-> tool.description,
   inputSchema |-> TranslateSchema(b, category, tool.parameters)]

\* ---------------------------------------------------------------- the translation's writes
\* cleanParams bound to the source object itself
CleanParamsAliased == "source"

\* the object cleanParams names: the clone the rest destructuring makes
CleanParams == "clone"

\* convertToMCPTool with its objects kept apart: tool.parameters (source) and
\* the clone, and every assignment made to the object cleanParams names.
\* Gives the source object as the call leaves it and the schema it returns.
TranslateInPlace(b, category, params) ==
  LET created == [source |-> params, clone |-> StripAdditionalProperties(params)]
      injected == [created EXCEPT ![CleanParams]["properties"] =
                     InjectProperty(b, category, created[CleanParams]["properties"])]
      required == [injected EXCEPT ![CleanParams]["required"] =
                     InjectRequired(b, category, injected[CleanParams]["required"])]
  IN  [source |-> required.source, inputSchema |-> required[CleanParams]]

\* ---------------------------------------------------------------- inputs of the translation
PropertyKeys == {"projectId", "path", "limit"}

SourceProperty(k) ==
  [key |-> k, val |-> [type |-> "string", description |-> "declared by the backend"]]

\* property sets: sequences of distinct keys
SourceProperties ==
  {[i \in DOMAIN ks |-> SourceProperty(ks[i])] :
     ks \in {s \in SeqsUpTo(PropertyKeys, MaxProps) :
               \A i, j \in DOMAIN s : i # j => s[i] # s[j]}}

SourceRequired == SeqsUpTo(PropertyKeys, MaxRequired)

SourceParameters ==
  {[type |-> "object", properties |-> p, required |-> r] :
     p \in SourceProperties, r \in SourceRequired}
  \cup
  {[type |-> "object", properties |-> p, required |-> r, additionalProperties |-> a] :
     p \in SourceProperties, r \in SourceRequired, a \in BOOLEAN}

ActionNames == {<<"LIST">>, <<"READ", "_", "FILE">>}

AITools ==
  {[type |-> "function", name |-> n, description |-> "action", parameters |-> ps] :
     n \in ActionNames, ps \in SourceParameters}

\* categories a catalog is keyed by: never scoped, scoped in both builds,
\* scoped in tools.ts only, scoped in part_000 only
CatalogCategories == {Str("project"), Str("canvas"), Str("aws"), Str("team")}

\* ---------------------------------------------------------------- tool listing
Property(k, type, description) ==
  [key |-> k, val |-> [type |-> type, description |-> description]]

Action(name, description, properties, required) ==
  [type |-> "function", name |-> name, description |-> description,
   parameters |-> [type |-> "object", properties |-> properties, required |-> required]]

\* the project tools tools.ts defines locally
projectTools ==
  <<Action(<<"LIST", "_", "PROJECTS">>,
           "List all projects owned by or shared with the authenticated user",
           <<Property("skip", "number", "Number of projects to skip (for pagination)"),
             Property("limit", "number", "Maximum number of projects to return (default 20)")>>,
           <<>>),
    Action(<<"GET", "_", "TEMPLATES">>,
           "Get available starter templates for creating new projects",
           <<Property("_placeholder", "string", "Unused parameter (no parameters required)")>>,
           <<>>),
    Action(<<"CREATE", "_", "PROJECT">>,
           "Create a new project from a starter template",
           <<Property("templateS3Key", "string", "S3 key of the starter template to use")>>,
           <<"templateS3Key">>),
    Action(<<"GET", "_", "PROJECT", "_", "DETAILS">>,
           "Get detailed information about a specific project",
           <<Property("projectId", "string", "The project ID")>>,
           <<"projectId">>),
    Action(<<"DELETE", "_", "PROJECT">>,
           "Delete a project (owner only). This action cannot be undone.",
           <<Property("projectId", "string", "The project ID to delete")>>,
           <<"projectId">>)>>

\* the tools getAllTools holds before it fetches the catalog
LocalTools(b) ==
  IF b = "tools_ts"
  THEN [i \in DOMAIN projectTools |-> convertToMCPTool(b, projectTools[i], Str("project"))]
  ELSE <<>>

\* for (const [category, categoryTools] of Object.entries(result.tools)) ...
RECURSIVE ConvertCatalog(_, _)
ConvertCatalog(b, entries) ==
  IF entries = <<>> THEN <<>>
  ELSE LET category == Head(entries).key
           categoryTools == Head(entries).val
       IN  [i \in DOMAIN categoryTools |-> convertToMCPTool(b, categoryTools[i], category)]
           \o ConvertCatalog(b, Tail(entries))

\* a listing that gives up its local tools when the fetch fails
getAllToolsOrNothing(b, reply) ==
  IF reply.ok THEN LocalTools(b) \o ConvertCatalog(b, reply.result.tools) ELSE <<>>

\* getAllTools from the reply of getMCPToolDefinitions to its return
getAllTools(b, reply) ==
  LET tools == LocalTools(b)
  IN  IF reply.ok THEN tools \o ConvertCatalog(b, reply.result.tools) ELSE tools

\* ---------------------------------------------------------------- inputs of the listing
ListAction == Action(<<"LIST">>, "List apps", <<>>, <<>>)

ReadFileAction ==
  Action(<<"READ", "_", "FILE">>, "Read a file",
         <<Property("path", "string", "File path")>>, <<"path">>)

\* declares projectId itself, as an optional property, in a closed schema
DeployAction ==
  [type |-> "function", name |-> <<"DEPLOY">>, description |-> "Deploy",
   parameters |-> [type |-> "object",
                   properties |-> <<Property("target", "string", "Target"),
                                    Property("projectId", "string", "The project ID")>>,
                   required |-> <<"target">>,
                   additionalProperties |-> FALSE]]

Catalogs ==
  {<<>>,
   <<[key |-> Str("project"), val |-> <<ListAction>>],
     [key |-> Str("canvas"), val |-> <<ReadFileAction>>]>>,
   <<[key |-> Str("canvas"), val |-> <<ReadFileAction, DeployAction>>],
     [key |-> Str("team"), val |-> <<ListAction>>]>>}

CatalogReplies ==
  {[ok |-> TRUE, result |-> [tools |-> c]] : c \in Catalogs} \cup {[ok |-> FALSE]}

\* ---------------------------------------------------------------- values from the backend
\* amounts are scaled: the integer n stands for n / Scale
Scale == 2
MaxShortfall == 26

Undefined == [t |-> "undefined", v |-> 0]

Num(n) == [t |-> "number", v |-> n]

\* a string holding the decimal numeral of n / Scale
NumeralString(n) == [t |-> "string", v |-> n]

Units(k) == k * Scale

\* JavaScript truthiness of an amount: undefined and 0 are falsy, any numeral string is truthy
Truthy(x) == x.t # "undefined" /\ ~(x.t = "number" /\ x.v = 0)

\* x || d
OrElse(x, d) == IF Truthy(x) THEN x ELSE d

\* resource types are plain strings; "undefined" stands for an absent field
OrElseString(s, d) == IF s = "undefined" \/ s = "" THEN d ELSE s

\* the smaller of the two
Min(a, b) == IF a <= b THEN a ELSE b

Max(a, b) == IF a >= b THEN a ELSE b

\* ceil(n / d) for d > 0
CeilRatio(n, d) == -((-n) \div d)

\* Math.floor(x), scaled
MathFloor(x) == Units(x.v \div Scale)

\* Math.ceil(x), scaled
MathCeil(x) == Units(CeilRatio(x.v, Scale))

\* Math.ceil(x * 1.2), scaled
MathCeilTimes12(x) == Units(CeilRatio(x.v * 12, 10 * Scale))

\* ---------------------------------------------------------------- tool names
Tokens == {"_", "project", "constructor"}

lastIndexOf(s, c) ==
  IF \E i \in DOMAIN s : s[i] = c
  THEN (CHOOSE i \in DOMAIN s : s[i] = c /\ \A j \in (i + 1)..Len(s) : s[j] # c) - 1
  ELSE -1

indexOf(s, c) ==
  IF \E i \in DOMAIN s : s[i] = c
  THEN (CHOOSE i \in DOMAIN s : s[i] = c /\ \A j \in 1..(i - 1) : s[j] # c) - 1
  ELSE -1

\* s.substring(from, to) and s.substring(from), 0-based as in JavaScript
substring(s, from, to) == SubSeq(s, from + 1, to)

substringFrom(s, from) == SubSeq(s, from + 1, Len(s))

\* ---------------------------------------------------------------- dispatch
projectToolToCloudFunction ==
  [name \in {<<"LIST", "_", "PROJECTS">>, <<"GET", "_", "TEMPLATES">>,
             <<"CREATE", "_", "PROJECT">>, <<"GET", "_", "PROJECT", "_", "DETAILS">>,
             <<"DELETE", "_", "PROJECT">>} |->
     CASE name = <<"LIST", "_", "PROJECTS">> -> "getUserProjects"
       [] name = <<"GET", "_", "TEMPLATES">> -> "getTemplates"
       [] name = <<"CREATE", "_", "PROJECT">> -> "createProject"
       [] name = <<"GET", "_", "PROJECT", "_", "DETAILS">> -> "getProjectDetails"
       [] name = <<"DELETE", "_", "PROJECT">> -> "deleteProject"]

\* keys every object literal inherits from Object.prototype
ObjectPrototypeKeys == {<<"constructor">>}

\* projectToolToCloudFunction[name]: "" stands for undefined (falsy)
LookupCloudFunction(name) ==
  IF name \in DOMAIN projectToolToCloudFunction THEN projectToolToCloudFunction[name]
  ELSE IF name \in ObjectPrototypeKeys THEN "[inherited from Object.prototype]"
  ELSE ""

Envelope(text, isError) ==
  [content |-> <<[type |-> "text", text |-> text]>>, isError |-> isError]

\* JSON.stringify(value, null, 2): undefined has no JSON text
JsonStringify(value) ==
  IF value.t = "undefined" THEN [kind |-> "undefined"] ELSE [kind |-> "json", value |-> value]

\* a dispatch that does not look at the result of indexOf
ExecStartUnchecked(b, toolName, args, userId) ==
  LET underscoreIndex == indexOf(toolName, "_")
      category == substring(toolName, 0, underscoreIndex)
      name == substringFrom(toolName, underscoreIndex + 1)
  IN  [returns |-> FALSE, category |-> category, name |-> name,
       call |-> [fn |-> "executeMCPTool",
                 params |-> [category |-> category, tool |-> name,
                             params |-> args, userId |-> userId]]]

\* executeToolCall up to its first suspension: either it returns an envelope
\* at once or it issues one call of runCloudFunction and waits
ExecStart(b, toolName, args, userId) ==
  LET underscoreIndex == indexOf(toolName, "_")
      category == substring(toolName, 0, underscoreIndex)
      name == substringFrom(toolName, underscoreIndex + 1)
      unified == [fn |-> "executeMCPTool",
                  params |-> [category |-> category, tool |-> name,
                              params |-> args, userId |-> userId]]
  IN  IF underscoreIndex = -1
      THEN [returns |-> TRUE,
            envelope |-> Envelope([kind |-> "Invalid tool name format", toolName |-> toolName], TRUE)]
      ELSE IF b = "tools_ts" /\ category = Str("project")
      THEN IF LookupCloudFunction(name) = ""
           THEN [returns |-> TRUE,
                 envelope |-> Envelope([kind |-> "Unknown project tool", name |-> name], TRUE)]
           ELSE [returns |-> FALSE, category |-> category, name |-> name,
                 call |-> [fn |-> LookupCloudFunction(name),
                           params |-> ObjAssign(args, [key |-> "_mcpUserId", val |-> userId])]]
      ELSE [returns |-> FALSE, category |-> category, name |-> name, call |-> unified]

\* the x402 payment info built from the failure's data
PaymentInfo(errorData) ==
  LET shortfall == OrElse(errorData.shortfall, Num(Units(10)))
      current == OrElse(errorData.current, Num(0))
      required == OrElse(errorData.required, shortfall)
      resourceType == OrElseString(errorData.resourceType, "general")
  IN  [error |-> "INSUFFICIENT_BALANCE",
       code |-> "402",
       message |-> [text |-> "Insufficient credits.", Required |-> required.v, Available |-> current.v],
       x402PaymentRequired |-> TRUE,
       x402Endpoint |-> "https://internal.appsai.com/x402/pay",
       payment |-> [shortfall |-> shortfall,
                    current |-> current,
                    required |-> required,
                    resourceType |-> resourceType,
                    minimumTopUp |-> Max(Units(10), MathCeil(shortfall)),
                    recommendedTopUp |-> Max(Units(25), MathCeilTimes12(shortfall))],
       supportedNetworks |-> <<"ethereum", "base", "arbitrum", "polygon">>,
       acceptedTokens |-> <<"USDC">>,
       creditRate |-> 1,
       addFundsUrl |-> "https://appsai.com/billing",
       apiEndpoints |->
         [getPaymentInfo |-> "https://internal.appsai.com/server/functions/getCryptoPaymentInfo",
          getPaymentRequirements |-> "https://internal.appsai.com/server/functions/getX402PaymentRequirements",
          addFundsCrypto |-> "https://internal.appsai.com/server/functions/addFundsCrypto"]]

\* required.toFixed(2) and current.toFixed(2) exist only on numbers
ToFixedThrows(errorData) ==
  LET shortfall == OrElse(errorData.shortfall, Num(Units(10)))
      current == OrElse(errorData.current, Num(0))
      required == OrElse(errorData.required, shortfall)
  IN  required.t # "number" \/ current.t # "number"

Returned(envelope) == [threw |-> FALSE, envelope |-> envelope]

Thrown(message) == [threw |-> TRUE, message |-> message]

\* the 402 branch of the catch block
InsufficientBalance(b, errorData) ==
  IF b = "tools_ts"
  THEN Returned(Envelope([kind |-> "Insufficient credits. Please add funds at appsai.com/billing"], TRUE))
  ELSE IF ToFixedThrows(errorData)
  THEN Thrown("TypeError: toFixed is not a function")
  ELSE Returned(Envelope([kind |-> "json", value |-> PaymentInfo(errorData)], TRUE))

\* executeToolCall from the reply of runCloudFunction to its return
ExecFinish(b, toolName, reply) ==
  IF reply.ok
  THEN Returned(Envelope(JsonStringify(reply.value), FALSE))
  ELSE LET message == IF reply.error.instanceofError THEN reply.error.message ELSE "Unknown error"
       IN  IF reply.error.code = "402"
           THEN InsufficientBalance(b, reply.error.data)
           ELSE Returned(Envelope([kind |-> "Error executing", toolName |-> toolName,
                                   message |-> message], TRUE))

\* ---------------------------------------------------------------- inputs of the dispatch
SampleToolNames ==
  {<<"project", "_", "LIST", "_", "PROJECTS">>, <<"canvas", "_", "LIST", "_", "FILES">>,
   <<"system", "_", "DO", "_", "A", "_", "B">>, <<"malformed">>}

ToolNames == SeqsUpTo(Tokens, MaxNameLen) \cup SampleToolNames

Arguments ==
  {<<>>, <<[key |-> "projectId", val |-> "p1"]>>, <<[key |-> "_mcpUserId", val |-> "mallory"]>>}

UserIds == {"u1", "u2"}

ResultValues == {[t |-> "object", v |-> 1], [t |-> "null", v |-> 0], Undefined}

ShortfallValues ==
  {Undefined, NumeralString(Units(25))} \cup {Num(n) : n \in (-Scale)..Units(MaxShortfall)}

AmountValues == {Undefined, Num(0), Num(Units(25)), NumeralString(Units(25))}

\* the failure's data; a failure without data reads every field as undefined
ErrorData ==
  [shortfall : ShortfallValues, current : AmountValues, required : AmountValues,
   resourceType : {"undefined", "", "compute"}]

NoErrorData ==
  [shortfall |-> Undefined, current |-> Undefined, required |-> Undefined,
   resourceType |-> "undefined"]

Failures ==
  {[instanceofError |-> TRUE, message |-> "Insufficient balance", code |-> "402", data |-> d] :
     d \in ErrorData}
  \cup
  {[instanceofError |-> e, message |-> "Tool failed", code |-> c, data |-> NoErrorData] :
     e \in BOOLEAN, c \in {"undefined", "141", "402"}}

Replies ==
  {[ok |-> TRUE, value |-> v] : v \in ResultValues}
  \cup {[ok |-> FALSE, error |-> f] : f \in Failures}

SampleErrorData ==
  {NoErrorData,
   [shortfall |-> Num(Units(25)), current |-> Num(0), required |-> Num(Units(25)),
    resourceType |-> "compute"]}

SampleReplies ==
  {r \in Replies : r.ok \/ r.error.data \in SampleErrorData}

NoReply == [ok |-> TRUE, value |-> [t |-> "none", v |-> 0]]

\* ---------------------------------------------------------------- state
VARIABLES
  build,          \* which registry the process was built with
  conv,           \* one translation or one listing: its input and its output
  exec,           \* one direct call of executeToolCall
  finished,       \* the call of executeToolCall that returned before it
  API_KEY,        \* process.env.APPSAI_API_KEY, "" when not set
  cachedUserId,   \* the identity cache, "" for null
  req,            \* the requests in flight, one record per slot
  answer,         \* the answer sent last
  started,        \* requests received so far
  validateCalls,  \* calls of validateAPIKey so far
  rejections,     \* calls of validateAPIKey that came back invalid
  overlapped,     \* ensureAuthenticated was entered while another call of it was suspended
  identities      \* the identities ensureAuthenticated has returned

server == <<API_KEY, cachedUserId, req, answer, started, validateCalls, rejections, overlapped, identities>>

vars == <<build, conv, exec, finished, server>>

Reqs == 1..MaxInFlight

\* the server before any request, with no credential configured
ServerIdle ==
  /\ API_KEY = ""
  /\ cachedUserId = ""
  /\ req = [r \in Reqs |-> [pc |-> "idle"]]
  /\ answer = [pc |-> "none"]
  /\ started = 0
  /\ validateCalls = 0
  /\ rejections = 0
  /\ overlapped = FALSE
  /\ identities = {}

\* ---------------------------------------------------------------- translation of one action
InitConvert ==
  /\ build \in Builds
  /\ conv = [pc |-> "idle"]
  /\ exec = [pc |-> "idle"]
  /\ finished = [pc |-> "none"]
  /\ ServerIdle

Convert(tool, category) ==
  /\ conv.pc = "idle"
  /\ conv' = [pc |-> "converted", tool |-> tool, category |-> category,
              out |-> convertToMCPTool(build, tool, category)]
  /\ UNCHANGED <<build, exec, finished, server>>

\* the emitted schema fed to the translation once more
ConvertAgain ==
  /\ conv.pc = "converted"
  /\ conv' = [pc |-> "reconverted", tool |-> conv.tool, category |-> conv.category,
              out |-> conv.out,
              again |-> TranslateSchema(build, conv.category, conv.out.inputSchema)]
  /\ UNCHANGED <<build, exec, finished, server>>

NextConvert ==
  \/ \E tool \in AITools, category \in CatalogCategories : Convert(tool, category)
  \/ ConvertAgain

SpecConvert == InitConvert /\ [][NextConvert]_vars

\* ---------------------------------------------------------------- one action translated twice
\* convertToMCPTool(tool, category) is called, and called again on the same
\* tool object as the first call left it
ConvertTwice(tool, category) ==
  /\ conv.pc = "idle"
  /\ LET first == TranslateInPlace(build, category, tool.parameters)
         second == TranslateInPlace(build, category, first.source)
     IN  conv' = [pc |-> "twice", tool |-> tool, category |-> category,
                  after |-> first.source,
                  out |-> [name |-> Join(category, tool.name),
                           description |-> tool.description,
                           inputSchema |-> first.inputSchema],
                  second |-> [name |-> Join(category, tool.name),
                              description |-> tool.description,
                              inputSchema |-> second.inputSchema]]
  /\ UNCHANGED <<build, exec, finished, server>>

NextTwice == \E tool \in AITools, category \in CatalogCategories : ConvertTwice(tool, category)

SpecTwice == InitConvert /\ [][NextTwice]_vars

\* ---------------------------------------------------------------- one listing
\* the actions a catalog is built from
SampleActions == {ListAction, ReadFileAction, DeployAction, projectTools[1]}

SampleActionLists == SeqsUpTo(SampleActions, MaxActions) \ {<<>>}

\* catalogs as Object.entries gives them: each category once.  One category
\* with one action of any schema, one category with a few actions, a
\* category with a few actions followed by a category with one, and the
\* catalogs of the listing above.
ListCatalogs ==
  Catalogs
  \cup {<<[key |-> c, val |-> <<t>>]>> : c \in CatalogCategories, t \in AITools}
  \cup {<<[key |-> c, val |-> ts]>> : c \in CatalogCategories, ts \in SampleActionLists}
  \cup {<<[key |-> cs[1], val |-> ts], [key |-> cs[2], val |-> <<t>>]>> :
          cs \in {p \in CatalogCategories \X CatalogCategories : p[1] # p[2]},
          ts \in SampleActionLists, t \in SampleActions}

ListReplies ==
  {[ok |-> TRUE, result |-> [tools |-> c]] : c \in ListCatalogs} \cup {[ok |-> FALSE]}

\* getAllTools() with the reply its fetch of the catalog gets
GetAllTools(reply) ==
  /\ conv.pc = "idle"
  /\ conv' = [pc |-> "listed", reply |-> reply, tools |-> getAllTools(build, reply)]
  /\ UNCHANGED <<build, exec, finished, server>>

NextList == \E reply \in ListReplies : GetAllTools(reply)

SpecList == InitConvert /\ [][NextList]_vars

\* ---------------------------------------------------------------- one tool call at a time
InitExec ==
  /\ build \in Builds
  /\ conv = [pc |-> "idle"]
  /\ exec = [pc |-> "idle"]
  /\ finished = [pc |-> "none"]
  /\ ServerIdle

\* executeToolCall(toolName, args, userId) is entered and runs to its first suspension
ExecuteToolCall(toolName, args, userId) ==
  /\ exec.pc = "idle"
  /\ LET start == ExecStart(build, toolName, args, userId)
     IN  exec' = IF start.returns
                 THEN [pc |-> "returned", toolName |-> toolName, args |-> args,
                       userId |-> userId, called |-> FALSE, calls |-> 0, reply |-> NoReply,
                       result |-> Returned(start.envelope)]
                 ELSE [pc |-> "awaiting", toolName |-> toolName, args |-> args,
                       userId |-> userId, category |-> start.category,
                       name |-> start.name, call |-> start.call, calls |-> 1]
  /\ UNCHANGED <<build, conv, finished, server>>

\* a call that is issued once more after an insufficient-balance failure
AfterReplyRetrying(b, e, reply) ==
  IF ~reply.ok /\ reply.error.code = "402" /\ e.calls < 2
  THEN [e EXCEPT !.calls = e.calls + 1]
  ELSE [pc |-> "returned", toolName |-> e.toolName, args |-> e.args,
        userId |-> e.userId, called |-> TRUE, calls |-> e.calls, reply |-> reply,
        result |-> ExecFinish(b, e.toolName, reply)]

\* a call that answers "payment pending" once an earlier call ran out of balance
AfterReplyRemembering(b, e, reply) ==
  [pc |-> "returned", toolName |-> e.toolName, args |-> e.args,
   userId |-> e.userId, called |-> TRUE, calls |-> e.calls, reply |-> reply,
   result |-> IF /\ finished.pc = "returned"
                 /\ finished.called
                 /\ ~finished.reply.ok
                 /\ finished.reply.error.code = "402"
              THEN Returned(Envelope([kind |-> "Payment pending"], TRUE))
              ELSE ExecFinish(b, e.toolName, reply)]

\* the call e after the reply to its one runCloudFunction: it ends, whatever
\* the reply; calls counts the backend calls it has issued
AfterReply(b, e, reply) ==
  [pc |-> "returned", toolName |-> e.toolName, args |-> e.args,
   userId |-> e.userId, called |-> TRUE, calls |-> e.calls, reply |-> reply,
   result |-> ExecFinish(b, e.toolName, reply)]

\* runCloudFunction resolves or rejects and executeToolCall runs to its end
BackendReplies(reply) ==
  /\ exec.pc = "awaiting"
  /\ exec' = AfterReply(build, exec, reply)
  /\ UNCHANGED <<build, conv, finished, server>>

\* every tool name, a few replies
NextExec ==
  \/ \E toolName \in ToolNames, args \in Arguments, userId \in UserIds :
       ExecuteToolCall(toolName, args, userId)
  \/ \E reply \in SampleReplies : BackendReplies(reply)

SpecExec == InitExec /\ [][NextExec]_vars

\* a few tool names, every reply
NextPayment ==
  \/ \E toolName \in SampleToolNames, userId \in UserIds :
       ExecuteToolCall(toolName, <<>>, userId)
  \/ \E reply \in Replies : BackendReplies(reply)

SpecPayment == InitExec /\ [][NextPayment]_vars

\* ---------------------------------------------------------------- one tool call after another
\* the promise of executeToolCall has settled and the next call can be made
NextInvocation ==
  /\ exec.pc = "returned"
  /\ finished' = exec
  /\ exec' = [pc |-> "idle"]
  /\ UNCHANGED <<build, conv, server>>

NextRepeat ==
  \/ \E toolName \in SampleToolNames, userId \in UserIds :
       ExecuteToolCall(toolName, <<>>, userId)
  \/ \E reply \in SampleReplies : BackendReplies(reply)
  \/ NextInvocation

SpecRepeat == InitExec /\ [][NextRepeat]_vars

\* ---------------------------------------------------------------- a listed tool is called
\* the closed set of category names each registry declares
ToolCategory(b) ==
  IF b = "tools_ts"
  THEN {Str("project"), Str("canvas"), Str("server"), Str("system"), Str("aws"),
        Str("mongodb"), Str("agents")}
  ELSE {Str("project"), Str("canvas"), Str("backend"), Str("system"), Str("mongodb"),
        Str("agents"), Str("billing"), Str("marketplace"), Str("seller"), Str("domain"),
        Str("team"), Str("transfer"), Str("settings"), Str("apikey"), Str("cost")}

\* actions of every name up to MaxNameLen tokens, underscores anywhere
NamedActions == {Action(n, "action", <<>>, <<>>) : n \in SeqsUpTo(Tokens, MaxNameLen)}

\* the client calls the tool by the name the listing gave it
CallListedTool(userId) ==
  /\ conv.pc = "converted"
  /\ ExecuteToolCall(conv.out.name, <<>>, userId)

NextRoundTrip ==
  \/ \E tool \in NamedActions, category \in ToolCategory(build) : Convert(tool, category)
  \/ \E userId \in UserIds : CallListedTool(userId)

SpecRoundTrip == InitConvert /\ [][NextRoundTrip]_vars

\* ---------------------------------------------------------------- identity cache
ValidationReplies ==
  {[ok |-> TRUE, result |-> [valid |-> TRUE, userId |-> u, error |-> ""]] : u \in UserIds}
  \cup {[ok |-> TRUE, result |-> [valid |-> FALSE, userId |-> "", error |-> e]] :
          e \in {"", "API key revoked"}}
  \cup {[ok |-> FALSE, instanceofError |-> TRUE, message |-> "Network error"]}

\* validateAPIKey from the reply of validateMCPAPIKey to its return; "" stands for an absent field
validateAPIKey(reply) ==
  IF reply.ok THEN reply.result
  ELSE [valid |-> FALSE, userId |-> "",
        error |-> IF reply.instanceofError THEN reply.message ELSE "Unknown error"]

\* an entry that remembers an earlier rejection and refuses without asking again
EnsureStartRemembersRejection(cached, apiKey) ==
  IF cached # "" THEN [step |-> "return", userId |-> cached]
  ELSE IF apiKey = ""
  THEN [step |-> "throw", message |-> "APPSAI_API_KEY environment variable is required"]
  ELSE IF rejections > 0
  THEN [step |-> "throw", message |-> "Invalid API key"]
  ELSE [step |-> "validate"]

\* an entry that lets a process without a credential through, with no identity
EnsureStartAnonymous(cached, apiKey) ==
  IF cached # "" THEN [step |-> "return", userId |-> cached]
  ELSE IF apiKey = "" THEN [step |-> "return", userId |-> ""]
  ELSE [step |-> "validate"]

\* an entry that validates the credential on every call
EnsureStartUncached(cached, apiKey) ==
  IF apiKey = ""
  THEN [step |-> "throw", message |-> "APPSAI_API_KEY environment variable is required"]
  ELSE [step |-> "validate"]

\* an entry that goes to the validator without looking at the credential
EnsureStartUnconfigured(cached, apiKey) ==
  IF cached # "" THEN [step |-> "return", userId |-> cached]
  ELSE [step |-> "validate"]

\* ensureAuthenticated up to its first suspension
EnsureStart(cached, apiKey) ==
  IF cached # "" THEN [step |-> "return", userId |-> cached]
  ELSE IF apiKey = ""
  THEN [step |-> "throw", message |-> "APPSAI_API_KEY environment variable is required"]
  ELSE [step |-> "validate"]

\* a rejection that forgets the reason the validator gave
EnsureFinishGeneric(result) ==
  IF ~result.valid
  THEN [step |-> "throw", message |-> "Invalid API key"]
  ELSE [step |-> "return", userId |-> result.userId]

\* a completion that takes a cache filled in the meantime for an error
EnsureFinishRaceFails(result) ==
  IF ~result.valid
  THEN [step |-> "throw",
        message |-> IF result.error # "" THEN result.error ELSE "Invalid API key"]
  ELSE IF cachedUserId # ""
  THEN [step |-> "throw", message |-> "Already authenticated"]
  ELSE [step |-> "return", userId |-> result.userId]

\* ensureAuthenticated after validateAPIKey has returned
EnsureFinish(result) ==
  IF ~result.valid
  THEN [step |-> "throw",
        message |-> IF result.error # "" THEN result.error ELSE "Invalid API key"]
  ELSE [step |-> "return", userId |-> result.userId]

\* a cache that is never written
StoreIdentityDropped(cached, result) == cached

\* cachedUserId = result.userId
StoreIdentity(cached, result) == result.userId

\* ---------------------------------------------------------------- request handlers
Answered(kind, response, trips, identity, reply) ==
  [pc |-> "answered", kind |-> kind, response |-> response, trips |-> trips,
   identity |-> identity, reply |-> reply]

\* the catch blocks of the two handlers
HandlerCatch(kind, message) ==
  IF kind = "list" THEN [tools |-> <<>>]
  ELSE Envelope([kind |-> "Authentication error", message |-> message], TRUE)

\* the handler from the return of ensureAuthenticated to its next suspension
Authenticated(b, rq, userId) ==
  IF rq.kind = "list"
  THEN [pc |-> "fetching", kind |-> "list", userId |-> userId, trips |-> rq.trips + 1,
        call |-> [fn |-> "getMCPToolDefinitions", params |-> <<>>]]
  ELSE LET start == ExecStart(b, rq.toolName, rq.args, userId)
       IN  IF start.returns
           THEN Answered("call", start.envelope, rq.trips, userId, NoReply)
           ELSE [pc |-> "awaiting", kind |-> "call", toolName |-> rq.toolName,
                 args |-> rq.args, userId |-> userId, trips |-> rq.trips + 1,
                 category |-> start.category, name |-> start.name, call |-> start.call]

\* a handler that keeps its request and sends nothing
ReachesNoAnswer(r, rq) ==
  /\ req' = [req EXCEPT ![r] = rq]
  /\ UNCHANGED answer

\* the slot and the answer after the handler of request r has reached rq
Reaches(r, rq) ==
  IF rq.pc = "answered"
  THEN /\ req' = [req EXCEPT ![r] = [pc |-> "idle"]]
       /\ answer' = rq
  ELSE /\ req' = [req EXCEPT ![r] = rq]
       /\ UNCHANGED answer

\* a request arrives and its handler runs to its first suspension
Receive(r, kind, toolName, args) ==
  /\ started < MaxRequests
  /\ req[r].pc = "idle"
  /\ \A q \in 1..(r - 1) : req[q].pc # "idle"
  /\ started' = started + 1
  /\ LET rq == [kind |-> kind, toolName |-> toolName, args |-> args, trips |-> 0]
         auth == EnsureStart(cachedUserId, API_KEY)
     IN  CASE auth.step = "return" ->
                /\ Reaches(r, Authenticated(build, rq, auth.userId))
                /\ identities' = identities \cup {auth.userId}
                /\ UNCHANGED <<validateCalls, overlapped>>
           [] auth.step = "throw" ->
                /\ Reaches(r, Answered(kind, HandlerCatch(kind, auth.message), 0, "", NoReply))
                /\ UNCHANGED <<identities, validateCalls, overlapped>>
           [] auth.step = "validate" ->
                /\ Reaches(r, [pc |-> "validating", kind |-> kind, toolName |-> toolName,
                               args |-> args, trips |-> 1])
                /\ validateCalls' = validateCalls + 1
                /\ overlapped' = (overlapped \/ \E q \in Reqs : req[q].pc = "validating")
                /\ UNCHANGED identities
  /\ UNCHANGED <<build, conv, exec, finished, API_KEY, cachedUserId, rejections>>

ListToolsRequest(r) == Receive(r, "list", <<>>, <<>>)

CallToolRequest(r, toolName, args) == Receive(r, "call", toolName, args)

\* validateAPIKey returns and the handler runs to its next suspension
ValidationReturns(r, reply) ==
  /\ req[r].pc = "validating"
  /\ LET result == validateAPIKey(reply)
         auth == EnsureFinish(result)
     IN  IF auth.step = "throw"
         THEN /\ Reaches(r, Answered(req[r].kind, HandlerCatch(req[r].kind, auth.message),
                                         req[r].trips, "", NoReply))
              /\ rejections' = rejections + 1
              /\ UNCHANGED <<cachedUserId, identities>>
         ELSE /\ cachedUserId' = StoreIdentity(cachedUserId, result)
              /\ Reaches(r, Authenticated(build, req[r], auth.userId))
              /\ identities' = identities \cup {auth.userId}
              /\ UNCHANGED rejections
  /\ UNCHANGED <<build, conv, exec, finished, API_KEY, started, validateCalls, overlapped>>

\* getMCPToolDefinitions resolves or rejects and the listing is answered
CatalogReturns(r, reply) ==
  /\ req[r].pc = "fetching"
  /\ Reaches(r, Answered("list", [tools |-> getAllTools(build, reply)], req[r].trips,
                         req[r].userId, reply))
  /\ UNCHANGED <<build, conv, exec, finished, API_KEY, cachedUserId, started, validateCalls,
                 rejections, overlapped, identities>>

\* the execution call resolves or rejects and the tool call is answered
ExecutionReturns(r, reply) ==
  /\ req[r].pc = "awaiting"
  /\ LET result == ExecFinish(build, req[r].toolName, reply)
         response == IF result.threw THEN HandlerCatch("call", result.message)
                     ELSE result.envelope
     IN  Reaches(r, Answered("call", response, req[r].trips, req[r].userId, reply))
  /\ UNCHANGED <<build, conv, exec, finished, API_KEY, cachedUserId, started, validateCalls,
                 rejections, overlapped, identities>>

ServerToolNames == {<<"canvas", "_", "LIST", "_", "FILES">>, <<"malformed">>}

ServerArguments == {<<[key |-> "projectId", val |-> "p1"]>>}

\* a result, a failure without a code, a 402 with numbers and a 402 with a numeral string
ServerReplies ==
  {[ok |-> TRUE, value |-> [t |-> "object", v |-> 1]],
   [ok |-> FALSE, error |-> [instanceofError |-> TRUE, message |-> "Tool failed",
                             code |-> "undefined", data |-> NoErrorData]],
   [ok |-> FALSE, error |-> [instanceofError |-> TRUE, message |-> "Insufficient balance",
                             code |-> "402",
                             data |-> [shortfall |-> Num(Units(25)), current |-> Num(0),
                                       required |-> Num(Units(25)), resourceType |-> "compute"]]],
   [ok |-> FALSE, error |-> [instanceofError |-> TRUE, message |-> "Insufficient balance",
                             code |-> "402",
                             data |-> [shortfall |-> Num(Units(25)), current |-> Num(0),
                                       required |-> NumeralString(Units(25)),
                                       resourceType |-> "compute"]]]}

ServerCatalogReplies ==
  {r \in CatalogReplies : r.ok => Len(r.result.tools) = 2}

Init ==
  /\ build \in Builds
  /\ conv = [pc |-> "idle"]
  /\ exec = [pc |-> "idle"]
  /\ finished = [pc |-> "none"]
  /\ API_KEY \in {"", "sk_live_1"}
  /\ cachedUserId = ""
  /\ req = [r \in Reqs |-> [pc |-> "idle"]]
  /\ answer = [pc |-> "none"]
  /\ started = 0
  /\ validateCalls = 0
  /\ rejections = 0
  /\ overlapped = FALSE
  /\ identities = {}

Next ==
  \/ \E r \in Reqs : ListToolsRequest(r)
  \/ \E r \in Reqs, toolName \in ServerToolNames, args \in ServerArguments :
       CallToolRequest(r, toolName, args)
  \/ \E r \in Reqs, reply \in ValidationReplies : ValidationReturns(r, reply)
  \/ \E r \in Reqs, reply \in ServerCatalogReplies : CatalogReturns(r, reply)
  \/ \E r \in Reqs, reply \in ServerReplies : ExecutionReturns(r, reply)

Spec == Init /\ [][Next]_vars

\* every call that is out at the backend resolves or rejects in the end, so
\* the handler suspended on it is resumed
Resumes(r) ==
  \/ \E reply \in ValidationReplies : ValidationReturns(r, reply)
  \/ \E reply \in ServerCatalogReplies : CatalogReturns(r, reply)
  \/ \E reply \in ServerReplies : ExecutionReturns(r, reply)

Fairness == \A r \in Reqs : WF_vars(Resumes(r))

SpecLive == Spec /\ Fairness

\* ================================================================ claims

\* ---------------------------------------------------------------- C1
\* C1 as stated: with a configured credential that every validation so far
\* accepted, validateAPIKey has been invoked exactly once in total, however
\* many calls of ensureAuthenticated there were, and they all returned the
\* same identity.
C1_ValidatedOnceInTotal ==
  (API_KEY # "" /\ rejections = 0 /\ started >= 1)
    => (validateCalls = 1 /\ Cardinality(identities) <= 1)

\* C1 amended: when no call of ensureAuthenticated is entered while another
\* one is suspended in validateAPIKey, the accepted credential is validated
\* exactly once and every call returns the same identity.
C1_ValidatedOnceWhenSequential ==
  (API_KEY # "" /\ rejections = 0 /\ ~overlapped /\ started >= 1)
    => (validateCalls = 1 /\ Cardinality(identities) <= 1)

\* three calls one after the other, all through, one validation
C1_Witness ==
  /\ started = 3
  /\ ~overlapped
  /\ rejections = 0
  /\ \A r \in Reqs : req[r].pc # "validating"
  /\ validateCalls = 1
  /\ identities = {cachedUserId}

\* ---------------------------------------------------------------- C2
Scoped == conv.pc # "idle" /\ conv.category \in CATEGORIES_REQUIRING_PROJECT_ID(build)

DeclaresProjectId == \E i \in DOMAIN conv.tool.parameters.properties :
                       conv.tool.parameters.properties[i].key = "projectId"

RequiresProjectId == \E i \in DOMAIN conv.tool.parameters.required :
                       conv.tool.parameters.required[i] = "projectId"

\* C2 as stated: in a scoped category, a schema without a projectId property
\* is emitted with projectId as first property and "projectId" as first
\* required entry, whatever the source required sequence holds.
C2_FirstPropertyAndFirstRequired ==
  (Scoped /\ ~DeclaresProjectId)
    => /\ Len(conv.out.inputSchema.properties) >= 1
       /\ conv.out.inputSchema.properties[1].key = "projectId"
       /\ Len(conv.out.inputSchema.required) >= 1
       /\ conv.out.inputSchema.required[1] = "projectId"

\* C2 amended: projectId is the first property, followed by the source
\* properties; "projectId" is the first required entry unless the source
\* required sequence already names it, and then required is emitted as it is.
C2_FirstPropertyAndRequired ==
  (Scoped /\ ~DeclaresProjectId)
    => LET src == conv.tool.parameters
           out == conv.out.inputSchema
       IN  /\ Len(out.properties) = Len(src.properties) + 1
           /\ out.properties[1].key = "projectId"
           /\ out.properties[1].val.type = "string"
           /\ \A i \in DOMAIN src.properties : out.properties[i + 1] = src.properties[i]
           /\ IF RequiresProjectId
              THEN out.required = src.required
              ELSE /\ Len(out.required) = Len(src.required) + 1
                   /\ out.required[1] = "projectId"
                   /\ \A i \in DOMAIN src.required : out.required[i + 1] = src.required[i]

\* READ_FILE(path) in a scoped category: projectId before path, in both
C2_Witness ==
  /\ Scoped
  /\ conv.tool.parameters.required = <<"path">>
  /\ KeysOf(conv.tool.parameters.properties) = <<"path">>
  /\ KeysOf(conv.out.inputSchema.properties) = <<"projectId", "path">>
  /\ conv.out.inputSchema.required = <<"projectId", "path">>

\* ---------------------------------------------------------------- C3
\* C3: no emitted schema has an additionalProperties key, whether the source
\* had it true, had it false or did not have it.
C3_NoAdditionalProperties ==
  conv.pc # "idle" => "additionalProperties" \notin DOMAIN conv.out.inputSchema

\* a source schema closed with additionalProperties: false, translated
C3_Witness ==
  /\ conv.pc = "converted"
  /\ "additionalProperties" \in DOMAIN conv.tool.parameters
  /\ conv.tool.parameters.additionalProperties = FALSE
  /\ DOMAIN conv.out.inputSchema = {"type", "properties", "required"}

HasUnderscore(s) == \E i \in DOMAIN s : s[i] = "_"

\* toolName is category, one underscore, action, and category has no underscore
SplitAtFirst(toolName, category, action) ==
  /\ toolName = category \o <<"_">> \o action
  /\ ~HasUnderscore(category)

\* C5: a tool name with an underscore is split at its first underscore only:
\* the category is what precedes it, the action everything that follows, and
\* that pair is what the execution call (or the project table lookup) gets.
C5_SplitAtFirstUnderscore ==
  (exec.pc # "idle" /\ HasUnderscore(exec.toolName))
    => IF exec.pc = "awaiting"
       THEN /\ SplitAtFirst(exec.toolName, exec.category, exec.name)
            /\ exec.call.fn = "executeMCPTool"
                 => /\ exec.call.params.category = exec.category
                    /\ exec.call.params.tool = exec.name
            /\ exec.call.fn # "executeMCPTool"
                 => /\ exec.category = <<"project">>
                    /\ exec.call.fn = LookupCloudFunction(exec.name)
       ELSE exec.called
            \/ /\ exec.result.envelope.content[1].text.kind = "Unknown project tool"
               /\ SplitAtFirst(exec.toolName, <<"project">>,
                               exec.result.envelope.content[1].text.name)

\* system_DO_A_B is sent as category system, action DO_A_B
C5_Witness ==
  /\ exec.pc = "awaiting"
  /\ exec.toolName = <<"system", "_", "DO", "_", "A", "_", "B">>
  /\ exec.call.params.category = <<"system">>
  /\ exec.call.params.tool = <<"DO", "_", "A", "_", "B">>

\* ---------------------------------------------------------------- C6
\* C6: a tool name without an underscore is answered at once with an error
\* envelope, and runCloudFunction is never called for it.
C6_NoUnderscoreNoCall ==
  (exec.pc # "idle" /\ ~HasUnderscore(exec.toolName))
    => /\ exec.pc = "returned"
       /\ ~exec.called
       /\ ~exec.result.threw
       /\ exec.result.envelope.isError

\* "malformed" is refused
C6_Witness ==
  /\ exec.pc = "returned"
  /\ exec.toolName = <<"malformed">>
  /\ ~exec.called
  /\ exec.result.envelope.isError
  /\ exec.result.envelope.content[1].text.toolName = <<"malformed">>

\* ---------------------------------------------------------------- C7
Failed402 ==
  exec.pc = "returned" /\ exec.called /\ ~exec.reply.ok /\ exec.reply.error.code = "402"

\* the call ended with the structured payment info as its content
GavePaymentInfo ==
  /\ Failed402
  /\ ~exec.result.threw
  /\ exec.result.envelope.content[1].text.kind = "json"

PaymentOf(e) == e.result.envelope.content[1].text.value.payment

\* C7: a failure with code 402 is answered with an error envelope whose
\* content is the structured payment descriptor.
C7_402GivesPaymentDescriptor ==
  Failed402
    => /\ ~exec.result.threw
       /\ exec.result.envelope.isError
       /\ Len(exec.result.envelope.content) = 1
       /\ exec.result.envelope.content[1].text.kind = "json"
       /\ {"payment", "supportedNetworks", "acceptedTokens", "x402Endpoint", "addFundsUrl"}
            \subseteq DOMAIN exec.result.envelope.content[1].text.value
       /\ {"current", "required", "shortfall", "resourceType", "minimumTopUp", "recommendedTopUp"}
            \subseteq DOMAIN PaymentOf(exec)

\* ---------------------------------------------------------------- C8
\* the least whole number of units that is at least n / d
LeastWholeAtLeast(n, d) ==
  CHOOSE k \in -1..(2 * MaxShortfall) : k * d >= n /\ (k - 1) * d < n

\* C8: for the shortfall the failure carries, minimumTopUp is
\* max(10, ceil(shortfall)) and recommendedTopUp is max(25, ceil(shortfall * 1.2)).
C8_TopUpFormula ==
  (GavePaymentInfo /\ exec.reply.error.data.shortfall.t # "undefined")
    => LET s == exec.reply.error.data.shortfall.v
           least == LeastWholeAtLeast(s, Scale)
           least12 == LeastWholeAtLeast(12 * s, 10 * Scale)
       IN  /\ PaymentOf(exec).minimumTopUp = Scale * (IF least > 10 THEN least ELSE 10)
           /\ PaymentOf(exec).recommendedTopUp = Scale * (IF least12 > 25 THEN least12 ELSE 25)

\* shortfall 25, current 0, required 25: top up at least 25, better 30
C8_Witness ==
  /\ GavePaymentInfo
  /\ exec.reply.error.data.shortfall = Num(25 * Scale)
  /\ exec.reply.error.data.current = Num(0)
  /\ exec.reply.error.data.required = Num(25 * Scale)
  /\ PaymentOf(exec).minimumTopUp = 25 * Scale
  /\ PaymentOf(exec).recommendedTopUp = 30 * Scale

\* ---------------------------------------------------------------- C9
\* C9: every field of the descriptor is the one the failure's data gives, and
\* a fallback stands in only for an absent field: 10 for shortfall, 0 for
\* current, the shortfall for required, "general" for resourceType.
C9_FallbackOnlyWhenAbsent ==
  GavePaymentInfo
    => LET d == exec.reply.error.data
           p == PaymentOf(exec)
       IN  /\ p.shortfall = IF d.shortfall.t = "undefined" THEN Num(10 * Scale) ELSE d.shortfall
           /\ p.current = IF d.current.t = "undefined" THEN Num(0) ELSE d.current
           /\ p.required = IF d.required.t = "undefined" THEN p.shortfall ELSE d.required
           /\ p.resourceType = IF d.resourceType = "undefined" THEN "general"
                               ELSE d.resourceType

\* ---------------------------------------------------------------- C10
FetchFailed == answer.pc = "answered" /\ answer.kind = "list" /\ ~answer.reply.ok

C11_NeverThrows ==
  exec.pc = "returned"
    => /\ ~exec.result.threw
       /\ (exec.called /\ ~exec.reply.ok) => exec.result.envelope.isError

\* ---------------------------------------------------------------- C12
Pending(r) == req[r].pc \in {"validating", "fetching", "awaiting"}

\* a tool list for a listing, an envelope with one text block for a tool call
DefiniteAnswer ==
  IF answer.kind = "list"
  THEN DOMAIN answer.response = {"tools"}
  ELSE /\ DOMAIN answer.response = {"content", "isError"}
       /\ Len(answer.response.content) = 1

\* C12: when every outbound call returns or fails in the end, every request
\* whose handler is suspended is answered in the end, and every answer is a
\* definite tool list (for a listing) or a definite envelope (for a tool call).
C12_EveryRequestAnswered ==
  /\ [](answer.pc = "answered" => DefiniteAnswer)
  /\ \A r \in Reqs : Pending(r) ~> (req[r].pc = "idle" /\ answer.pc = "answered")

\* a tool call that went through validation and execution was answered, and
\* nothing is left waiting
C12_Witness ==
  /\ started >= 2
  /\ \A r \in Reqs : req[r].pc = "idle"
  /\ answer.pc = "answered"
  /\ answer.kind = "call"
  /\ answer.trips = 2
  /\ DefiniteAnswer

\* ---------------------------------------------------------------- C13
\* the reason a validation reply states, "" when it states none
StatedReason(reply) == IF reply.ok THEN reply.result.error ELSE reply.message

Rejects(reply) == ~reply.ok \/ ~reply.result.valid

ConfigurationError == "APPSAI_API_KEY environment variable is required"

\* C14: with no credential configured, every call of ensureAuthenticated so
\* far has failed with the configuration error: the validator was never
\* invoked, no identity was returned or cached, no request is waiting on the
\* backend, and every answer is the one the configuration error gives (the
\* empty listing, or the error envelope naming the missing variable).
C14_NoCredentialNeverValidates ==
  API_KEY = ""
    => /\ validateCalls = 0
       /\ identities = {}
       /\ cachedUserId = ""
       /\ \A r \in Reqs : req[r].pc = "idle"
       /\ answer.pc = "answered"
            => /\ answer.trips = 0
               /\ answer.kind = "list" => answer.response = [tools |-> <<>>]
               /\ answer.kind = "call"
                    => /\ answer.response.isError
                       /\ answer.response.content[1].text.message = ConfigurationError

\* the third request in a row is refused like the first
C14_Witness ==
  /\ API_KEY = ""
  /\ started = 3
  /\ validateCalls = 0
  /\ answer.pc = "answered"
  /\ answer.kind = "call"
  /\ answer.response.content[1].text.message = ConfigurationError

\* ---------------------------------------------------------------- C15
\* C15: every envelope executeToolCall returns has exactly one content block,
\* of type text, holding a text; and when the backend call succeeded the
\* error flag is unset and the text is the JSON text of the returned value.
C15_OneTextBlock ==
  (exec.pc = "returned" /\ ~exec.result.threw)
    => LET envelope == exec.result.envelope
       IN  /\ Len(envelope.content) = 1
           /\ envelope.content[1].type = "text"
           /\ envelope.content[1].text.kind # "undefined"
           /\ (exec.called /\ exec.reply.ok)
                => /\ ~envelope.isError
                   /\ envelope.content[1].text = [kind |-> "json", value |-> exec.reply.value]

\* ---------------------------------------------------------------- C16
\* every category once, and within a category every action name once
PairsOnce(entries) ==
  /\ \A i, j \in DOMAIN entries : i # j => entries[i].key # entries[j].key
  /\ \A e \in DOMAIN entries :
       \A i, j \in DOMAIN entries[e].val :
         i # j => entries[e].val[i].name # entries[e].val[j].name

\* C16: for a catalog in which every (category, action name) pair occurs at
\* most once, no two descriptors of the listing have the same name.
C16_NamesUnique ==
  (conv.pc = "listed" /\ conv.reply.ok /\ PairsOnce(conv.reply.result.tools))
    => \A i, j \in DOMAIN conv.tools : i # j => conv.tools[i].name # conv.tools[j].name

\* ---------------------------------------------------------------- C17
\* the tool name is "project", an underscore, and an action that is not one
\* of the keys the table declares
UndeclaredProjectAction(toolName) ==
  /\ Len(toolName) >= 2
  /\ toolName[1] = "project"
  /\ toolName[2] = "_"
  /\ SubSeq(toolName, 3, Len(toolName)) \notin DOMAIN projectToolToCloudFunction

\* C17: in the build that dispatches project tools itself, a project tool
\* call whose action is not a declared key of projectToolToCloudFunction is
\* answered at once with an error envelope, and no backend call is made.
C17_UndeclaredProjectActionRefused ==
  (build = "tools_ts" /\ exec.pc # "idle" /\ UndeclaredProjectAction(exec.toolName))
    => /\ exec.pc = "returned"
       /\ ~exec.called
       /\ ~exec.result.threw
       /\ exec.result.envelope.isError

\* ---------------------------------------------------------------- C18
\* the (category, action) pairs of a catalog in the order Object.entries gives
RECURSIVE CatalogPairs(_)
CatalogPairs(entries) ==
  IF entries = <<>> THEN <<>>
  ELSE [i \in DOMAIN Head(entries).val |->
          [category |-> Head(entries).key, tool |-> Head(entries).val[i]]]
       \o CatalogPairs(Tail(entries))

ExampleCatalog ==
  <<[key |-> <<"project">>,
     val |-> <<[type |-> "function", name |-> <<"LIST">>, description |-> "List apps",
                parameters |-> [type |-> "object", properties |-> <<>>, required |-> <<>>]]>>],
    [key |-> <<"canvas">>,
     val |-> <<[type |-> "function", name |-> <<"READ", "_", "FILE">>,
                description |-> "Read a file",
                parameters |-> [type |-> "object",
                                properties |-> <<[key |-> "path",
                                                  val |-> [type |-> "string",
                                                           description |-> "File path"]]>>,
                                required |-> <<"path">>]]>>]>>

\* the descriptors the listing has for the fetched catalog: its last ones
Fetched(tools, pairs) ==
  [i \in DOMAIN pairs |-> tools[Len(tools) - Len(pairs) + i]]

\* every action of an unscoped category keeps its properties and its required
\* sequence, and the example's two descriptors are as the example says
TranslatedAsStated(fetched, pairs) ==
  /\ \A i \in DOMAIN pairs :
       pairs[i].category \notin CATEGORIES_REQUIRING_PROJECT_ID(build)
         => /\ fetched[i].inputSchema.properties = pairs[i].tool.parameters.properties
            /\ fetched[i].inputSchema.required = pairs[i].tool.parameters.required
  /\ conv.reply.result.tools = ExampleCatalog
       => /\ fetched[1].name = <<"project", "_", "LIST">>
          /\ fetched[1].inputSchema = [type |-> "object", properties |-> <<>>, required |-> <<>>]
          /\ fetched[2].name = <<"canvas", "_", "READ", "_", "FILE">>
          /\ KeysOf(fetched[2].inputSchema.properties) = <<"projectId", "path">>
          /\ fetched[2].inputSchema.required = <<"projectId", "path">>

\* C18 as stated: actions of a category that needs no context id keep their
\* properties and required sequence, nothing injected; and the listing for
\* the example catalog is exactly project_LIST (schema unchanged) and
\* canvas_READ_FILE (projectId first, required projectId then path).
C18_ExampleListingExactly ==
  (conv.pc = "listed" /\ conv.reply.ok)
    => LET pairs == CatalogPairs(conv.reply.result.tools)
       IN  /\ Len(conv.tools) = Len(pairs)
           /\ TranslatedAsStated(Fetched(conv.tools, pairs), pairs)

\* C18 amended: the same translation, and the listing is the descriptors of
\* the fetched catalog in catalog order, after the tools the registry holds
\* locally: none in part_000, its five project tools in tools.ts.
C18_ExampleListingAfterLocalTools ==
  (conv.pc = "listed" /\ conv.reply.ok)
    => LET pairs == CatalogPairs(conv.reply.result.tools)
           held == IF build = "part_000" THEN 0 ELSE 5
       IN  /\ Len(conv.tools) = held + Len(pairs)
           /\ \A i \in 1..held : conv.tools[i].name[1] = "project"
           /\ TranslatedAsStated(Fetched(conv.tools, pairs), pairs)

\* the example catalog listed by part_000: two descriptors
C18_Witness ==
  /\ conv.pc = "listed"
  /\ build = "part_000"
  /\ conv.reply.ok
  /\ conv.reply.result.tools = ExampleCatalog
  /\ Len(conv.tools) = 2
  /\ conv.tools[1].name = <<"project", "_", "LIST">>
  /\ conv.tools[2].inputSchema.required = <<"projectId", "path">>

\* ---------------------------------------------------------------- C19
\* C19 as stated: no request, in flight or answered, has made more than one
\* outbound round trip.
C19_AtMostOneRoundTrip ==
  /\ \A r \in Reqs : Pending(r) => req[r].trips <= 1
  /\ answer.pc = "answered" => answer.trips <= 1

\* the round trips of the requests in flight and of the last answer: the
\* validation is the first of a request that makes it, and no request makes
\* more than two
TripsWithinTwo ==
  /\ \A r \in Reqs :
       /\ req[r].pc = "validating" => req[r].trips = 1
       /\ req[r].pc \in {"fetching", "awaiting"} => req[r].trips \in {1, 2}
  /\ answer.pc = "answered" => answer.trips \in {0, 1, 2}

\* a request received while the identity is cached goes straight to its one
\* catalog or execution call, or is answered without any call
OneTripWhenCached ==
  (cachedUserId # "" /\ started' = started + 1)
    => /\ \A r \in Reqs :
            req'[r] # req[r] => /\ req'[r].pc \in {"fetching", "awaiting"}
                                /\ req'[r].trips = 1
       /\ answer' # answer => answer'.trips = 0

\* C19 amended: a request makes at most one catalog or execution round trip,
\* and before it one validation round trip when it finds the identity cache
\* empty: at most two in all, and at most one for a request received after
\* the identity was cached.
C19_OneRoundTripOnceAuthenticated ==
  []TripsWithinTwo /\ [][OneTripWhenCached]_vars

\* after the identity was cached a tool call was answered with its execution
\* call as its only round trip
C19_Witness ==
  /\ started >= 2
  /\ validateCalls = 1
  /\ cachedUserId # ""
  /\ answer.pc = "answered"
  /\ answer.kind = "call"
  /\ answer.identity = cachedUserId
  /\ answer.reply.ok
  /\ answer.trips = 1

\* ---------------------------------------------------------------- C20
\* C20: one call of executeToolCall issues at most one backend call: exactly
\* one while it waits and when it returns after a reply, whether the reply
\* was a result, a failure or an insufficient-balance failure, none when it
\* returns at once; and the one call goes to the execution function (or the
\* project tool's own function), never to a payment endpoint.
C20_CalledAtMostOnce ==
  /\ exec.pc = "awaiting"
       => /\ exec.calls = 1
          /\ exec.call.fn = "executeMCPTool" \/ exec.call.fn = LookupCloudFunction(exec.name)
  /\ exec.pc = "returned"
       => /\ exec.calls = IF exec.called THEN 1 ELSE 0
          /\ exec.calls <= 1

\* an insufficient-balance failure was returned after the one call
C20_Witness ==
  /\ exec.pc = "returned"
  /\ exec.called
  /\ ~exec.reply.ok
  /\ exec.reply.error.code = "402"
  /\ ~exec.result.threw
  /\ exec.result.envelope.isError
  /\ exec.calls = 1

\* ---------------------------------------------------------------- C21
SameInvocation(a, b) ==
  /\ a.toolName = b.toolName
  /\ a.args = b.args
  /\ a.userId = b.userId
  /\ a.called = b.called
  /\ a.reply = b.reply

\* an invocation ends as the one before it did when it has the same tool
\* name, arguments, identity and reply
SameInputsSameResult ==
  (exec.pc = "returned" /\ finished.pc = "returned" /\ SameInvocation(exec, finished))
    => exec.result = finished.result

Accepts(reply) == reply.ok /\ reply.result.valid

\* C22: whenever a validation comes back accepting the credential, also when
\* other calls of ensureAuthenticated were entered while it was out and
\* whether or not one of them has filled the cache already, the call returns
\* the identity that validation gave, is not counted as a failure, its
\* request goes on with that identity, and the cache holds an identity.
C22_RaceTolerated ==
  [][\A r \in Reqs, reply \in ValidationReplies :
       (ValidationReturns(r, reply) /\ Accepts(reply))
         => /\ rejections' = rejections
            /\ reply.result.userId \in identities'
            /\ cachedUserId' = reply.result.userId
            /\ \/ /\ req'[r].pc \in {"fetching", "awaiting"}
                  /\ req'[r].userId = reply.result.userId
               \/ /\ req'[r].pc = "idle"
                  /\ answer'.pc = "answered"
                  /\ answer'.identity = reply.result.userId]_vars

\* two calls raced, both validated, both got the identity, the cache is filled
C22_Witness ==
  /\ overlapped
  /\ validateCalls = 2
  /\ rejections = 0
  /\ \A r \in Reqs : req[r].pc # "validating"
  /\ identities = {cachedUserId}
  /\ cachedUserId # ""

\* ---------------------------------------------------------------- C23
\* C23: the identity cache is written once: after a completed validation has
\* set it, no step changes the stored value, in particular not the completion
\* of another validation that was in flight, and a request received
\* afterwards is served under the stored value.
C23_FirstWriterWins ==
  [][cachedUserId # ""
       => /\ cachedUserId' = cachedUserId
          /\ started' = started + 1
               => /\ identities' = identities \cup {cachedUserId}
                  /\ \A r \in Reqs : req'[r] # req[r] => req'[r].userId = cachedUserId]_vars

\* ---------------------------------------------------------------- C24
\* the rejected call fails at once after its one validation: its request is
\* answered with validation as its only outbound call, and the validator is
\* not asked again
FailsWithoutRetry(r) ==
  /\ validateCalls' = validateCalls
  /\ req'[r].pc = "idle"
  /\ answer'.pc = "answered"
  /\ answer'.trips = 1
  /\ answer'.identity = ""

\* a call entered with a credential and an empty cache asks the validator
FreshValidation ==
  (cachedUserId = "" /\ API_KEY # "" /\ started' = started + 1)
    => /\ validateCalls' = validateCalls + 1
       /\ \E r \in Reqs : req[r].pc = "idle" /\ req'[r].pc = "validating"

\* C24 as stated: a rejected validation is not retried, fails at once and
\* leaves the identity cache empty, and the next call validates afresh.
C24_RejectionLeavesCacheEmpty ==
  [][/\ \A r \in Reqs, reply \in ValidationReplies :
          (ValidationReturns(r, reply) /\ Rejects(reply))
            => (FailsWithoutRetry(r) /\ cachedUserId' = "")
     /\ FreshValidation]_vars

\* C24 amended: a rejected validation is not retried, fails at once and
\* leaves the identity cache as it was: empty, unless a concurrent call whose
\* validation was accepted has filled it; nothing about the failure is kept,
\* and a later call that finds the cache empty validates afresh.
C24_RejectionLeavesCacheAsItWas ==
  [][/\ \A r \in Reqs, reply \in ValidationReplies :
          (ValidationReturns(r, reply) /\ Rejects(reply))
            => (FailsWithoutRetry(r) /\ cachedUserId' = cachedUserId)
     /\ FreshValidation]_vars

\* after a rejection the next call is out at the validator again
C24_Witness ==
  /\ rejections = 1
  /\ ~overlapped
  /\ cachedUserId = ""
  /\ validateCalls = 2
  /\ \E r \in Reqs : req[r].pc = "validating"

ValuesAt(o, k) == {o[i].val : i \in {j \in DOMAIN o : o[j].key = k}}

\* C26: the identity a call sends to the backend is the userId it was given,
\* whatever the arguments hold: on the unified path userId is a field of its
\* own and the arguments travel untouched under params; on the direct
\* project path the one _mcpUserId of the parameters is the userId, also when
\* the arguments bring an _mcpUserId of their own, and every other argument
\* is passed as it is.
C26_IdentityNotFromArguments ==
  exec.pc = "awaiting"
    => IF exec.call.fn = "executeMCPTool"
       THEN /\ exec.call.params.userId = exec.userId
            /\ exec.call.params.params = exec.args
       ELSE /\ ValuesAt(exec.call.params, "_mcpUserId") = {exec.userId}
            /\ Cardinality({i \in DOMAIN exec.call.params :
                              exec.call.params[i].key = "_mcpUserId"}) = 1
            /\ \A i \in DOMAIN exec.args :
                 exec.args[i].key # "_mcpUserId"
                   => ValuesAt(exec.call.params, exec.args[i].key) = {exec.args[i].val}

\* a project call whose arguments claim another identity is sent under the
\* authenticated one
C26_Witness ==
  /\ build = "tools_ts"
  /\ exec.pc = "awaiting"
  /\ exec.toolName = <<"project", "_", "LIST", "_", "PROJECTS">>
  /\ exec.args = <<[key |-> "_mcpUserId", val |-> "mallory"]>>
  /\ exec.userId = "u1"
  /\ exec.call.fn = "getUserProjects"
  /\ exec.call.params = <<[key |-> "_mcpUserId", val |-> "u1"]>>

\* ---------------------------------------------------------------- C27
\* C27: convertToMCPTool leaves the tool it is given as it was: the
\* parameters object has the same properties, required sequence and
\* additionalProperties flag after the call as before, so translating the
\* same tool object a second time gives the same descriptor, which is the
\* one the translation of the untouched source gives.
C27_InputNotModified ==
  conv.pc = "twice"
    => /\ conv.after = conv.tool.parameters
       /\ conv.second = conv.out
       /\ conv.out = convertToMCPTool(build, conv.tool, conv.category)

\* a closed schema without projectId, translated twice in a scoped category:
\* the source still has its flag and no projectId, both outputs have projectId
C27_Witness ==
  /\ conv.pc = "twice"
  /\ conv.category \in CATEGORIES_REQUIRING_PROJECT_ID(build)
  /\ "additionalProperties" \in DOMAIN conv.tool.parameters
  /\ "additionalProperties" \in DOMAIN conv.after
  /\ KeysOf(conv.after.properties) = <<"path">>
  /\ conv.after.required = <<>>
  /\ KeysOf(conv.out.inputSchema.properties) = <<"projectId", "path">>
  /\ conv.second.inputSchema.required = <<"projectId">>

\* ---------------------------------------------------------------- C28
\* C28: the name convertToMCPTool gives an action of a declared category is
\* split by executeToolCall into that same category and that same action
\* name, with or without underscores in the action name: the call goes out
\* for exactly that pair, or (project tools of tools.ts) the action name is
\* looked up in the project table and refused under exactly that name.
C28_NameRoundTrip ==
  (conv.pc = "converted" /\ exec.pc # "idle")
    => /\ exec.toolName = conv.out.name
       /\ IF exec.pc = "awaiting"
          THEN /\ exec.category = conv.category
               /\ exec.name = conv.tool.name
               /\ exec.call.fn = "executeMCPTool"
                    => /\ exec.call.params.category = conv.category
                       /\ exec.call.params.tool = conv.tool.name
          ELSE /\ build = "tools_ts"
               /\ conv.category = <<"project">>
               /\ exec.result.envelope.content[1].text =
                    [kind |-> "Unknown project tool", name |-> conv.tool.name]

\* an action name with underscores comes back whole
C28_Witness ==
  /\ conv.pc = "converted"
  /\ conv.category = <<"canvas">>
  /\ conv.tool.name = <<"project", "_", "constructor">>
  /\ exec.pc = "awaiting"
  /\ exec.toolName = <<"canvas", "_", "project", "_", "constructor">>
  /\ exec.call.params.category = <<"canvas">>
  /\ exec.call.params.tool = <<"project", "_", "constructor">>

\* ---------------------------------------------------------------- C29
\* C29: whenever a payment descriptor is given for a failure whose shortfall
\* is a number, minimumTopUp is at least 10, recommendedTopUp at least 25
\* and at least minimumTopUp, and minimumTopUp is at least the shortfall the
\* descriptor reports and at least the shortfall the backend gave.
C29_TopUpCoversShortfall ==
  (GavePaymentInfo /\ exec.reply.error.data.shortfall.t = "number")
    => LET p == PaymentOf(exec)
       IN  /\ p.minimumTopUp >= 10 * Scale
           /\ p.recommendedTopUp >= 25 * Scale
           /\ p.recommendedTopUp >= p.minimumTopUp
           /\ p.minimumTopUp >= p.shortfall.v
           /\ p.minimumTopUp >= exec.reply.error.data.shortfall.v

\* a shortfall just above 10 is rounded up to the next whole amount
C29_Witness ==
  /\ GavePaymentInfo
  /\ exec.reply.error.data.shortfall = Num(10 * Scale + 1)
  /\ PaymentOf(exec).shortfall = Num(10 * Scale + 1)
  /\ PaymentOf(exec).minimumTopUp = 11 * Scale
  /\ PaymentOf(exec).recommendedTopUp = 25 * Scale

\* ---------------------------------------------------------------- C30
\* C30: a tool call is answered under the label "Authentication error" only
\* when ensureAuthenticated failed for it, that is when no identity was
\* returned for the request and no execution call was made; whatever happens
\* inside executeToolCall is answered under another text.
C30_AuthenticationLabelOnlyForAuthentication ==
  (/\ answer.pc = "answered"
   /\ answer.kind = "call"
   /\ answer.response.content[1].text.kind = "Authentication error")
    => /\ answer.identity = ""
       /\ answer.reply = NoReply

====
